---- MODULE Spec2Model ----
(***************************************************************************)
(* Model of scripts/sync-openclaw-metrics.mjs, the script that folds the   *)
(* usage records of the session logs into public/metrics.json.             *)
(*                                                                         *)
(* One aggregation run is the sequence StartRun, then (ReadFile,           *)
(* ProcessEvent*, EndFile)* and Emit.  Between runs the environment may    *)
(* remove or restore the log directory; the clock may advance at any time. *)
(* The content of the log files is chosen in Init and never changes.       *)
(*                                                                         *)
(* JSON values are tagged records of one shape, JavaScript numbers are     *)
(* integers or NaN (token and cost amounts are taken in whole units).      *)
(*                                                                         *)
(* The dashboard view (App) is a second machine, SpecView: each call of    *)
(* loadData is a request that runs up to its first await, then settles in  *)
(* one or two further steps (fetch, res.json()), in any order among the    *)
(* requests under way.                                                     *)
(***************************************************************************)
EXTENDS Integers, Sequences, FiniteSets, TLC

\* ------------------------------------------------------------------ bounds
\* Lines in all the log files of the directory together.
MaxLines == 2
\* Clock instants 0..MaxClock; TicksPerDay instants make one calendar day.
MaxClock == 2
\* Fragments concatenated into a model identifier given to the classifier.
MaxParts == 3

TicksPerDay == 2

\* ------------------------------------------------------- JavaScript values
\* A JSON value as the script sees it.  "absent" stands for a missing
\* property (undefined) and for null, which ||, ?. and ! treat alike.
Absent == [t |-> "absent", n |-> 0, s |-> ""]
Num(k) == [t |-> "num", n |-> k, s |-> ""]
Str(x) == [t |-> "str", n |-> 0, s |-> x]
Bool(b) == [t |-> "bool", n |-> IF b THEN 1 ELSE 0, s |-> ""]
Obj == [t |-> "obj", n |-> 0, s |-> ""]

\* A JavaScript number: NaN or an integer.
NaN == [nan |-> TRUE, n |-> 0]
JNum(k) == [nan |-> FALSE, n |-> k]

\* a + b on JavaScript numbers: NaN absorbs.
Add(a, b) == IF a.nan \/ b.nan THEN NaN ELSE JNum(a.n + b.n)

\* ToBoolean.
Truthy(v) ==
    CASE v.t = "absent" -> FALSE
      [] v.t = "num" -> v.n # 0
      [] v.t = "str" -> v.s # ""
      [] v.t = "bool" -> v.n = 1
      [] OTHER -> TRUE

\* a || b
Or(a, b) == IF Truthy(a) THEN a ELSE b

Digits == "0123456789"

\* The value of a one-character string as a decimal digit, -1 if it is none.
DigitVal(c) ==
    IF \E i \in 1..10 : SubSeq(Digits, i, i) = c
    THEN (CHOOSE i \in 1..10 : SubSeq(Digits, i, i) = c) - 1
    ELSE -1

RECURSIVE DecimalValue(_, _)
\* The number a string of decimal digits denotes, NaN if some character is
\* no digit; acc is the value of the characters already read.
DecimalValue(s, acc) ==
    IF Len(s) = 0 THEN JNum(acc)
    ELSE IF DigitVal(SubSeq(s, 1, 1)) < 0 THEN NaN
    ELSE DecimalValue(SubSeq(s, 2, Len(s)), 10 * acc + DigitVal(SubSeq(s, 1, 1)))

\* Number(v): a number is itself, the empty string is 0, a string of digits
\* its value, any other string NaN; true is 1, false 0; an object is NaN and
\* undefined is NaN.
Number(v) ==
    CASE v.t = "num" -> JNum(v.n)
      [] v.t = "str" -> DecimalValue(v.s, 0)
      [] v.t = "bool" -> JNum(v.n)
      [] OTHER -> NaN

\* String(v)
String(v) ==
    CASE v.t = "str" -> v.s
      [] v.t = "num" -> ToString(v.n)
      [] v.t = "bool" -> IF v.n = 1 THEN "true" ELSE "false"
      [] v.t = "obj" -> "[object Object]"
      [] OTHER -> "undefined"

Min(a, b) == IF a < b THEN a ELSE b

\* s.slice(0, k)
SliceTo(s, k) == SubSeq(s, 1, Min(k, Len(s)))

\* s.startsWith(p)
StartsWith(s, p) == Len(s) >= Len(p) /\ SubSeq(s, 1, Len(p)) = p

\* s.endsWith(p)
EndsWith(s, p) == Len(s) >= Len(p) /\ SubSeq(s, Len(s) - Len(p) + 1, Len(s)) = p

\* s.includes(p)
Includes(s, p) == \E i \in 1..(Len(s) - Len(p) + 1) : SubSeq(s, i, i + Len(p) - 1) = p

\* new Date().toISOString() at clock instant c: the clock starts on
\* 2026-02-20, the time of day counts the instants of the day.
ToISOString(c) ==
    "2026-02-" \o ToString(20 + (c \div TicksPerDay)) \o "T0"
        \o ToString(c % TicksPerDay) \o ":00:00.000Z"

\* The characters a date key can hold, in the order localeCompare gives them
\* (punctuation, then digits, then lower-case letters).
Collation == " -:.[]0123456789abcdefghijklmnopqrstuvwxyz"

\* The place of a one-character string in Collation.
CharRank(c) == CHOOSE i \in 1..Len(Collation) : SubSeq(Collation, i, i) = c

RECURSIVE LocaleCompare(_, _)
\* a.localeCompare(b): negative, zero or positive as a sorts before, with or
\* after b.
LocaleCompare(a, b) ==
    IF Len(a) = 0 /\ Len(b) = 0 THEN 0
    ELSE IF Len(a) = 0 THEN -1
    ELSE IF Len(b) = 0 THEN 1
    ELSE IF CharRank(SubSeq(a, 1, 1)) # CharRank(SubSeq(b, 1, 1))
         THEN CharRank(SubSeq(a, 1, 1)) - CharRank(SubSeq(b, 1, 1))
    ELSE LocaleCompare(SubSeq(a, 2, Len(a)), SubSeq(b, 2, Len(b)))

\* ------------------------------------------------------------- classifier
\* providerFromModel with the OpenAI rule testing the prefix "openai".
providerFromModel_LoosePrefix(model) ==
    IF StartsWith(model, "anthropic/") \/ Includes(model, "claude") THEN "Anthropic"
    ELSE IF StartsWith(model, "openai") THEN "OpenAI"
    ELSE IF StartsWith(model, "openai-codex/") THEN "OpenAI Codex"
    ELSE IF StartsWith(model, "google/") THEN "Google"
    ELSE IF StartsWith(model, "xai/") THEN "xAI"
    ELSE "Other"

\* providerFromModel, called on a string.
providerFromModel(model) ==
    IF StartsWith(model, "anthropic/") \/ Includes(model, "claude") THEN "Anthropic"
    ELSE IF StartsWith(model, "openai/") THEN "OpenAI"
    ELSE IF StartsWith(model, "openai-codex/") THEN "OpenAI Codex"
    ELSE IF StartsWith(model, "google/") THEN "Google"
    ELSE IF StartsWith(model, "xai/") THEN "xAI"
    ELSE "Other"

\* ------------------------------------------------------------ log content
\* A parsed log line.  top is "obj" for a JSON object and "scalar" for any
\* other JSON value; message and usage are "absent", "scalar" (a value that
\* has no properties of its own) or "obj"; cost is a JSON value, an object
\* when cost.t = "obj", and total is then its property total.
NoEvent ==
    [top |-> "obj", timestamp |-> Absent, message |-> "absent",
     mtimestamp |-> Absent, model |-> Absent, modelId |-> Absent,
     usage |-> "absent", input |-> Absent, output |-> Absent,
     cacheRead |-> Absent, cacheWrite |-> Absent, totalTokens |-> Absent,
     cost |-> Absent, total |-> Absent]

\* An event with a message that has a usage object with a cost object.
Billed == [NoEvent EXCEPT !.message = "obj", !.usage = "obj", !.cost = Obj]

\* A line of a log file: text is "empty" (nothing but white space),
\* "garbage" (no JSON) or "json" (JSON that parses to ev).
EmptyLine == [text |-> "empty", ev |-> NoEvent]
GarbageLine == [text |-> "garbage", ev |-> NoEvent]
Json(e) == [text |-> "json", ev |-> e]

\* The lines the log files are made of.
Lines ==
    { EmptyLine,
      GarbageLine,
      \* a JSON value that is no object, and a message with no usage
      Json([NoEvent EXCEPT !.top = "scalar"]),
      Json([NoEvent EXCEPT !.message = "obj", !.model = Str("openai/gpt-4")]),
      \* usage without cost, and usage with cost 0
      Json([NoEvent EXCEPT !.message = "obj", !.usage = "obj", !.input = Num(3)]),
      Json([Billed EXCEPT !.cost = Num(0), !.input = Num(3)]),
      \* well-formed events
      Json([Billed EXCEPT !.timestamp = Str("2026-02-20T08:00:00.000Z"),
                          !.model = Str("anthropic/claude-3"),
                          !.input = Num(2), !.output = Num(1), !.cacheRead = Num(1),
                          !.cacheWrite = Num(1), !.totalTokens = Num(5),
                          !.total = Num(1)]),
      Json([Billed EXCEPT !.timestamp = Str("2026-02-19T23:30:00.000Z"),
                          !.model = Str("openai/gpt-4"),
                          !.input = Num(1), !.output = Num(2), !.totalTokens = Num(3),
                          !.total = Num(2)]),
      \* the timestamp and the identifier under their second names, the
      \* timestamp a number, and a cost that is no object
      Json([Billed EXCEPT !.mtimestamp = Num(2026),
                          !.modelId = Str("openai-codex/gpt-5"),
                          !.input = Num(1), !.cost = Num(5)]),
      \* no timestamp and no identifier
      Json([Billed EXCEPT !.input = Num(1), !.totalTokens = Num(1), !.total = Num(1)]),
      \* fields of the wrong type
      Json([Billed EXCEPT !.timestamp = Str("2026-02-20T08:00:00.000Z"),
                          !.model = Str("xai/grok"),
                          !.input = Str("abc"), !.total = Str("n/a")]),
      Json([Billed EXCEPT !.timestamp = Str("2026-02-20T08:00:00.000Z"),
                          !.model = Num(5), !.total = Num(1)]) }

RECURSIVE SeqsUpTo(_, _)
\* The sequences over S of length at most n.
SeqsUpTo(S, n) ==
    IF n = 0 THEN { <<>> }
    ELSE LET T == SeqsUpTo(S, n - 1)
         IN  T \cup { Append(q, x) : q \in { r \in T : Len(r) = n - 1 }, x \in S }

\* What readdirSync returns for a directory that holds "a.jsonl" with lines
\* la when pa, "b.jsonl" with lines lb when pb, and "notes.txt" when pt.
Listing(pa, la, pb, lb, pt) ==
    (IF pa THEN << [name |-> "a.jsonl", lines |-> la] >> ELSE << >>)
    \o (IF pb THEN << [name |-> "b.jsonl", lines |-> lb] >> ELSE << >>)
    \o (IF pt THEN << [name |-> "notes.txt", lines |-> << >>] >> ELSE << >>)

\* The directories of at most MaxLines log lines: a sequence of lines cut in
\* two at k, the halves being the files that are there.  "b.jsonl" comes only
\* after "a.jsonl", and "notes.txt" only beside at most one log file of at
\* most one line.
Directories ==
    { Listing(x[3], SubSeq(x[1], 1, x[2]), x[4], SubSeq(x[1], x[2] + 1, Len(x[1])), x[5]) :
        x \in { y \in SeqsUpTo(Lines, MaxLines) \X (0..MaxLines) \X BOOLEAN \X BOOLEAN \X BOOLEAN :
                  /\ y[2] <= Len(y[1])
                  /\ (~y[3] => (Len(y[1]) = 0 /\ ~y[4]))
                  /\ (~y[4] => y[2] = Len(y[1]))
                  /\ (y[5] => (~y[4] /\ Len(y[1]) <= 1)) } }

\* ------------------------------------------------------------------ state
VARIABLES
    dir,        \* the entries of sessionsDir with their lines, when it exists
    dirExists,  \* fs.existsSync(sessionsDir)
    clock,      \* the instant new Date() returns
    outDoc,     \* public/metrics.json: << >> when there is none, else <<payload>>
    pc,         \* "idle", "read", "loop", "done", "exited" or "crashed"
    files,      \* the names of the .jsonl entries
    fi,         \* index in files of the file being read
    events,     \* the rows readJsonl returned for files[fi]
    ei,         \* index in events of the next event
    totals,
    byDay,      \* the values of the Map byDay in insertion order
    byModel,    \* the values of the Map byModel in insertion order
    dated,      \* the date resolved for each event added in this run, in order
    prevDoc,    \* the document the last write replaced, << >> when it made the file
    ident,      \* classifier run: the identifier
    label,      \* classifier run: << >> or <<providerFromModel(ident)>>
    data,       \* dashboard: << >> for null, else <<the MetricsPayload shown>>
    loading,    \* dashboard: the loading flag
    error,      \* dashboard: << >> for null, else <<the message shown>>
    requests,   \* dashboard: the loadData calls made, each with its position
    trace       \* dashboard: the calls and their outcomes in the order they happened

vars == << dir, dirExists, clock, outDoc, pc, files, fi, events, ei, totals,
           byDay, byModel, dated, prevDoc, ident, label, data, loading, error,
           requests, trace >>

view == << data, loading, error, requests, trace >>

run == << pc, files, fi, events, ei, totals, byDay, byModel, dated >>

\* useState(null), useState(true), useState(null): the view before its
\* effect has run, with no loadData call made.
Unmounted ==
    /\ data = << >>
    /\ loading = TRUE
    /\ error = << >>
    /\ requests = << >>
    /\ trace = << >>

ZeroTotals ==
    [calls |-> JNum(0), inputTokens |-> JNum(0), outputTokens |-> JNum(0),
     cacheRead |-> JNum(0), cacheWrite |-> JNum(0), totalTokens |-> JNum(0),
     cost |-> JNum(0)]

\* f.endsWith('.jsonl') on a directory entry.
IsJsonl(entry) == EndsWith(entry.name, ".jsonl")

\* The names of a sequence of directory entries.
NamesOf(entries) == [i \in 1..Len(entries) |-> entries[i].name]

\* fs.readFileSync(filePath, 'utf8').split('\n')
ReadLines(filePath) == dir[CHOOSE i \in 1..Len(dir) : dir[i].name = filePath].lines

\* A line that is not empty once trimmed and that JSON.parse accepts.
Parses(line) == line.text = "json"

\* readJsonl on a sequence of lines: the values of the lines that parse.
readJsonl(lines) ==
    LET kept == SelectSeq(lines, Parses)
    IN  [i \in 1..Len(kept) |-> kept[i].ev]

\* event?.message
MessageOf(event) == IF event.top = "obj" THEN event.message ELSE "absent"

\* msg?.usage
UsageOf(event) == IF MessageOf(event) = "obj" THEN event.usage ELSE "absent"

\* usage.cost, for a usage that is truthy
CostOf(event) == IF UsageOf(event) = "obj" THEN event.cost ELSE Absent

\* !usage || !usage.cost
Skipped(event) == UsageOf(event) = "absent" \/ ~Truthy(CostOf(event))

\* usage.cost.total, for a usage.cost that is truthy
CostTotal(event) == IF event.cost.t = "obj" THEN event.total ELSE Absent

\* event.timestamp || msg.timestamp || new Date().toISOString()
TsOf(event, now) == Or(event.timestamp, Or(event.mtimestamp, Str(ToISOString(now))))

\* String(ts).slice(0, 10)
DateOf(event, now) == SliceTo(String(TsOf(event, now)), 10)

\* msg.model || msg.modelId || 'unknown'
ModelOf(event) == Or(event.model, Or(event.modelId, Str("unknown")))

\* Number(x || 0)
Coerce(x) == Number(Or(x, Num(0)))

\* The index of the entry of a Map's values whose field key is k, 0 if none.
Find(entries, key, k) ==
    IF \E i \in 1..Len(entries) : entries[i][key] = k
    THEN CHOOSE i \in 1..Len(entries) : entries[i][key] = k
    ELSE 0

\* map.set(k, v) on the values of a Map: in place when k is there, else last.
MapSet(entries, key, v) ==
    IF Find(entries, key, v[key]) = 0 THEN Append(entries, v)
    ELSE [entries EXCEPT ![Find(entries, key, v[key])] = v]

\* The five additions made to a daily or model entry.
Bump(entry, event) ==
    [entry EXCEPT !.calls = Add(@, JNum(1)),
                  !.inputTokens = Add(@, Coerce(event.input)),
                  !.outputTokens = Add(@, Coerce(event.output)),
                  !.totalTokens = Add(@, Coerce(event.totalTokens)),
                  !.cost = Add(@, Coerce(CostTotal(event)))]

\* The seven additions made to totals.
BumpTotals(t, event) ==
    [t EXCEPT !.calls = Add(@, JNum(1)),
              !.inputTokens = Add(@, Coerce(event.input)),
              !.outputTokens = Add(@, Coerce(event.output)),
              !.cacheRead = Add(@, Coerce(event.cacheRead)),
              !.cacheWrite = Add(@, Coerce(event.cacheWrite)),
              !.totalTokens = Add(@, Coerce(event.totalTokens)),
              !.cost = Add(@, Coerce(CostTotal(event)))]

\* byDay.get(date) || { date, calls: 0, ... } with the event added
DayEntry(event, date) ==
    LET i == Find(byDay, "date", date)
        day == IF i # 0 THEN byDay[i]
               ELSE [date |-> date, calls |-> JNum(0), inputTokens |-> JNum(0),
                     outputTokens |-> JNum(0), totalTokens |-> JNum(0), cost |-> JNum(0)]
    IN  Bump(day, event)

\* byModel.get(model) || { model, provider, calls: 0, ... } with the event added
ModelEntry(event, model, provider) ==
    LET i == Find(byModel, "model", model)
        modelAgg == IF i # 0 THEN byModel[i]
                    ELSE [model |-> model, provider |-> provider, calls |-> JNum(0),
                          inputTokens |-> JNum(0), outputTokens |-> JNum(0),
                          totalTokens |-> JNum(0), cost |-> JNum(0)]
    IN  Bump(modelAgg, event)

\* ---------------------------------------------------------------- sorting
\* Array.prototype.sort places x among the already sorted entries after the
\* last one that the comparator does not put behind x; before is the set of
\* the places whose entry it puts behind x.  A comparator result of NaN
\* counts as 0.
InsertSorted(sorted, x, before) ==
    LET after == (1..Len(sorted)) \ before
        k == IF after = {} THEN 0 ELSE CHOOSE j \in after : \A l \in after : l <= j
    IN  SubSeq(sorted, 1, k) \o << x >> \o SubSeq(sorted, k + 1, Len(sorted))

\* (a, b) => a.date.localeCompare(b.date) is negative
DateBefore(a, b) == LocaleCompare(a.date, b.date) < 0

\* (a, b) => b.cost - a.cost is negative
CostBefore(a, b) == ~a.cost.nan /\ ~b.cost.nan /\ b.cost.n - a.cost.n < 0

RECURSIVE SortDaily(_)
\* Array.from(byDay.values()).sort((a, b) => a.date.localeCompare(b.date))
SortDaily(entries) ==
    IF Len(entries) = 0 THEN << >>
    ELSE LET sorted == SortDaily(SubSeq(entries, 1, Len(entries) - 1))
             x == entries[Len(entries)]
         IN  InsertSorted(sorted, x, { j \in 1..Len(sorted) : DateBefore(x, sorted[j]) })

RECURSIVE SortModels(_)
\* Array.from(byModel.values()).sort((a, b) => b.cost - a.cost)
SortModels(entries) ==
    IF Len(entries) = 0 THEN << >>
    ELSE LET sorted == SortModels(SubSeq(entries, 1, Len(entries) - 1))
             x == entries[Len(entries)]
         IN  InsertSorted(sorted, x, { j \in 1..Len(sorted) : CostBefore(x, sorted[j]) })

\* The payload built from the accumulators at instant now.
Payload(now) ==
    [generatedAt |-> ToISOString(now),
     source |-> "openclaw session jsonl usage records",
     totals |-> totals,
     daily |-> SortDaily(byDay),
     models |-> SortModels(byModel)]

\* ---------------------------------------------------------------- actions
Halted == { "idle", "exited", "done", "crashed" }

\* The clock advances.
Tick ==
    /\ clock < MaxClock
    /\ clock' = clock + 1
    /\ UNCHANGED << dir, dirExists, outDoc, prevDoc, run, ident, label, view >>

\* Between two runs the log directory disappears.
RemoveDir ==
    /\ pc \in Halted
    /\ dirExists
    /\ dirExists' = FALSE
    /\ UNCHANGED << dir, clock, outDoc, prevDoc, run, ident, label, view >>

\* Between two runs the log directory is back, its files as they were.
RestoreDir ==
    /\ pc \in Halted
    /\ ~dirExists
    /\ dirExists' = TRUE
    /\ UNCHANGED << dir, clock, outDoc, prevDoc, run, ident, label, view >>

\* StartRun leaving early only when the directory is absent.
StartRun_ExitOnlyIfAbsent ==
    /\ pc \in Halted
    /\ files' = IF dirExists THEN NamesOf(SelectSeq(dir, IsJsonl)) ELSE << >>
    /\ byDay' = << >>
    /\ byModel' = << >>
    /\ dated' = << >>
    /\ totals' = ZeroTotals
    /\ fi' = 1
    /\ events' = << >>
    /\ ei' = 1
    /\ pc' = IF ~dirExists THEN "exited" ELSE "read"
    /\ UNCHANGED << dir, dirExists, clock, outDoc, prevDoc, ident, label, view >>

\* StartRun without the early exit.
StartRun_NoExit ==
    /\ pc \in Halted
    /\ files' = IF dirExists THEN NamesOf(SelectSeq(dir, IsJsonl)) ELSE << >>
    /\ byDay' = << >>
    /\ byModel' = << >>
    /\ dated' = << >>
    /\ totals' = ZeroTotals
    /\ fi' = 1
    /\ events' = << >>
    /\ ei' = 1
    /\ pc' = "read"
    /\ UNCHANGED << dir, dirExists, clock, outDoc, prevDoc, ident, label, view >>

\* StartRun keeping the maps of the run before.
StartRun_KeepsMaps ==
    /\ pc \in Halted
    /\ files' = IF dirExists THEN NamesOf(SelectSeq(dir, IsJsonl)) ELSE << >>
    /\ byDay' = byDay
    /\ byModel' = byModel
    /\ dated' = << >>
    /\ totals' = ZeroTotals
    /\ fi' = 1
    /\ events' = << >>
    /\ ei' = 1
    /\ pc' = IF Len(files') = 0 THEN "exited" ELSE "read"
    /\ UNCHANGED << dir, dirExists, clock, outDoc, prevDoc, ident, label, view >>

\* The script starts: it lists the log files, creates the two maps and
\* leaves when there is no file, else sets totals to zero and enters the loop.
StartRun ==
    /\ pc \in Halted
    /\ files' = IF dirExists THEN NamesOf(SelectSeq(dir, IsJsonl)) ELSE << >>
    /\ byDay' = << >>
    /\ byModel' = << >>
    /\ dated' = << >>
    /\ totals' = ZeroTotals
    /\ fi' = 1
    /\ events' = << >>
    /\ ei' = 1
    /\ pc' = IF Len(files') = 0 THEN "exited" ELSE "read"
    /\ UNCHANGED << dir, dirExists, clock, outDoc, prevDoc, ident, label, view >>

\* for (const filePath of files): the next file is read.
ReadFile ==
    /\ pc = "read"
    /\ fi <= Len(files)
    /\ events' = readJsonl(ReadLines(files[fi]))
    /\ ei' = 1
    /\ pc' = "loop"
    /\ UNCHANGED << dir, dirExists, clock, outDoc, prevDoc, files, fi, totals, byDay,
                    byModel, dated, ident, label, view >>

\* for (const event of events): one event is skipped, or makes the script
\* throw in providerFromModel, or is added to the three accumulators.
ProcessEvent ==
    /\ pc = "loop"
    /\ ei <= Len(events)
    /\ LET event == events[ei]
           date == DateOf(event, clock)
           model == ModelOf(event)
       IN  IF Skipped(event)
           THEN /\ ei' = ei + 1
                /\ UNCHANGED << pc, totals, byDay, byModel, dated >>
           ELSE IF model.t # "str"
           THEN /\ pc' = "crashed"
                /\ UNCHANGED << ei, totals, byDay, byModel, dated >>
           ELSE /\ totals' = BumpTotals(totals, event)
                /\ byDay' = MapSet(byDay, "date", DayEntry(event, date))
                /\ byModel' = MapSet(byModel, "model",
                                     ModelEntry(event, model.s, providerFromModel(model.s)))
                /\ dated' = Append(dated, date)
                /\ ei' = ei + 1
                /\ pc' = pc
    /\ UNCHANGED << dir, dirExists, clock, outDoc, prevDoc, files, fi, events, ident,
                    label, view >>

\* The events of a file are exhausted.
EndFile ==
    /\ pc = "loop"
    /\ ei > Len(events)
    /\ fi' = fi + 1
    /\ pc' = "read"
    /\ UNCHANGED << dir, dirExists, clock, outDoc, prevDoc, files, events, ei, totals,
                    byDay, byModel, dated, ident, label, view >>

\* The files are exhausted: the payload is built and written.
Emit ==
    /\ pc = "read"
    /\ fi > Len(files)
    /\ outDoc' = << Payload(clock) >>
    /\ prevDoc' = outDoc
    /\ pc' = "done"
    /\ UNCHANGED << dir, dirExists, clock, files, fi, events, ei, totals, byDay,
                    byModel, dated, ident, label, view >>

Init ==
    /\ dir \in Directories
    /\ dirExists \in BOOLEAN
    /\ clock = 0
    /\ outDoc = << >>
    /\ pc = "idle"
    /\ files = << >>
    /\ fi = 1
    /\ events = << >>
    /\ ei = 1
    /\ totals = ZeroTotals
    /\ byDay = << >>
    /\ byModel = << >>
    /\ dated = << >>
    /\ prevDoc = << >>
    /\ ident = ""
    /\ label = << >>
    /\ Unmounted

Next ==
    \/ Tick
    \/ RemoveDir
    \/ RestoreDir
    \/ StartRun
    \/ ReadFile
    \/ ProcessEvent
    \/ EndFile
    \/ Emit

Spec == Init /\ [][Next]_vars

\* ------------------------------------------------- the classifier on its own
\* The pieces identifiers are put together from.
Fragments ==
    { "anthropic/", "claude", "openai", "-codex", "/", "google/", "xai/", "gpt",
      "unknown", "x" }

RECURSIVE Concat(_)
\* The concatenation of a sequence of strings.
Concat(parts) == IF Len(parts) = 0 THEN "" ELSE parts[1] \o Concat(Tail(parts))

\* The identifiers of at most MaxParts fragments.
Identifiers == { Concat(parts) : parts \in SeqsUpTo(Fragments, MaxParts) }

\* const provider = providerFromModel(model), for a string model
Classify ==
    /\ label = << >>
    /\ label' = << providerFromModel(ident) >>
    /\ UNCHANGED << dir, dirExists, clock, outDoc, prevDoc, run, ident, view >>

InitClassify ==
    /\ dir = << >>
    /\ dirExists = FALSE
    /\ clock = 0
    /\ outDoc = << >>
    /\ pc = "idle"
    /\ files = << >>
    /\ fi = 1
    /\ events = << >>
    /\ ei = 1
    /\ totals = ZeroTotals
    /\ byDay = << >>
    /\ byModel = << >>
    /\ dated = << >>
    /\ prevDoc = << >>
    /\ ident \in Identifiers
    /\ label = << >>
    /\ Unmounted

NextClassify == Classify

SpecClassify == InitClassify /\ [][NextClassify]_vars

\* ------------------------------------------------------ the dashboard view
\* The calls of loadData a run of the view makes.
MaxLoads == 3

\* The documents /metrics.json holds over a run of the view.
MaxDocs == 2

script == << dir, dirExists, clock, outDoc, prevDoc, run, ident, label >>

\* The status codes the server answers with.
Statuses == { 200, 404, 500 }

\* res.ok
Ok(status) == status >= 200 /\ status <= 299

\* A response that carries no body the view reads.
NoBody == [json |-> FALSE, generatedAt |-> ""]

\* The bodies of the answers to GET /metrics.json: a document written at
\* one of MaxDocs instants, or a text that is not JSON.
Bodies ==
    { [json |-> TRUE, generatedAt |-> ToISOString(k)] : k \in 0..(MaxDocs - 1) }
        \cup { NoBody }

\* What fetch rejects with when the request fails.
FetchError == [isError |-> TRUE, message |-> "Failed to fetch"]

\* new Error(`HTTP ${res.status}`)
HttpError(status) == [isError |-> TRUE, message |-> "HTTP " \o ToString(status)]

\* What res.json() rejects with for a body that is not JSON.
JsonError == [isError |-> TRUE, message |-> "Unexpected token < in JSON"]

\* e instanceof Error ? e.message : 'Failed to load metrics'
ErrorText(e) == IF e.isError THEN e.message ELSE "Failed to load metrics"

\* {data && <p>Last sync: ...</p>} and {!!data && (...)}
ShowsPayload == data # << >>

\* {error && <p>Error loading metrics: {error}</p>}
ShowsError == error # << >> /\ error[1] # ""

\* {loading && <p>Loading metrics...</p>}
ShowsLoading == loading

\* Request i leaves loadData.
Settle(i, ok, text) ==
    /\ requests' = [requests EXCEPT ![i] = [stage |-> "settled", body |-> NoBody]]
    /\ trace' = Append(trace, [kind |-> "settle", id |-> i, ok |-> ok, text |-> text])

\* loadData up to its first await: setLoading(true), setError(null), fetch.
loadData ==
    /\ Len(requests) < MaxLoads
    /\ loading' = TRUE
    /\ error' = << >>
    /\ requests' = Append(requests, [stage |-> "fetch", body |-> NoBody])
    /\ trace' = Append(trace, [kind |-> "call", id |-> Len(requests) + 1,
                               ok |-> FALSE, text |-> ""])
    /\ UNCHANGED << data, script >>

\* useEffect(() => { loadData() }, [])
Mount ==
    /\ requests = << >>
    /\ loadData

\* <button onClick={loadData}>
Refresh ==
    /\ requests # << >>
    /\ loadData

\* catch (e) { setError(...) } finally { setLoading(false) } of request i
Catch(i, e) ==
    /\ error' = << ErrorText(e) >>
    /\ loading' = FALSE
    /\ Settle(i, FALSE, ErrorText(e))
    /\ UNCHANGED << data, script >>

\* The fetch of request i rejects.
FetchRejects(i) ==
    /\ requests[i].stage = "fetch"
    /\ Catch(i, FetchError)

\* The fetch of request i resolves with a response of the given status and
\* body: a response that is not ok throws, an ok one goes on to res.json().
FetchResolves(i, status, body) ==
    /\ requests[i].stage = "fetch"
    /\ IF ~Ok(status)
           THEN Catch(i, HttpError(status))
           ELSE /\ requests' = [requests EXCEPT ![i] = [stage |-> "json", body |-> body]]
                /\ UNCHANGED << data, loading, error, trace, script >>

\* res.json() of request i resolves: setData(json), then setLoading(false).
JsonResolves(i) ==
    /\ requests[i].stage = "json"
    /\ requests[i].body.json
    /\ data' = << [generatedAt |-> requests[i].body.generatedAt] >>
    /\ loading' = FALSE
    /\ Settle(i, TRUE, requests[i].body.generatedAt)
    /\ UNCHANGED << error, script >>

\* res.json() of request i rejects.
JsonRejects(i) ==
    /\ requests[i].stage = "json"
    /\ ~requests[i].body.json
    /\ Catch(i, JsonError)

InitView ==
    /\ dir = << >>
    /\ dirExists = FALSE
    /\ clock = 0
    /\ outDoc = << >>
    /\ pc = "idle"
    /\ files = << >>
    /\ fi = 1
    /\ events = << >>
    /\ ei = 1
    /\ totals = ZeroTotals
    /\ byDay = << >>
    /\ byModel = << >>
    /\ dated = << >>
    /\ prevDoc = << >>
    /\ ident = ""
    /\ label = << >>
    /\ Unmounted

NextView ==
    \/ Mount
    \/ Refresh
    \/ \E i \in 1..Len(requests) : FetchRejects(i)
    \/ \E i \in 1..Len(requests), status \in Statuses, body \in Bodies :
           FetchResolves(i, status, body)
    \/ \E i \in 1..Len(requests) : JsonResolves(i)
    \/ \E i \in 1..Len(requests) : JsonRejects(i)

SpecView == InitView /\ [][NextView]_vars

\* =================================================================== claims

\* C6: providerFromModel returns, for every identifier, one of the six
\* labels, and it is the label of the first rule that matches in the order
\* anthropic-or-claude, openai-codex, openai, google, xai, other; an
\* identifier that starts with "openai-codex/" and does not contain "claude"
\* is "OpenAI Codex", and "unknown" is "Other".
Labels == { "Anthropic", "OpenAI Codex", "OpenAI", "Google", "xAI", "Other" }

\* The number of the first rule of the documented order that id matches.
FirstRule(id) ==
    LET matches == << StartsWith(id, "anthropic/") \/ Includes(id, "claude"),
                      StartsWith(id, "openai-codex/"),
                      StartsWith(id, "openai/"),
                      StartsWith(id, "google/"),
                      StartsWith(id, "xai/"),
                      TRUE >>
    IN  CHOOSE r \in 1..6 : matches[r] /\ \A q \in 1..(r - 1) : ~matches[q]

RuleLabel == << "Anthropic", "OpenAI Codex", "OpenAI", "Google", "xAI", "Other" >>

C6_FirstMatchingRule ==
    label # << >> =>
        /\ label[1] \in Labels
        /\ label[1] = RuleLabel[FirstRule(ident)]
        /\ (StartsWith(ident, "openai-codex/") /\ ~Includes(ident, "claude")
                => label[1] = "OpenAI Codex")
        /\ (ident = "unknown" => label[1] = "Other")

C6_Witness ==
    /\ label = << "OpenAI Codex" >>
    /\ StartsWith(ident, "openai-codex/")

\* ------------------------------------------------ what the claims speak of
RECURSIVE RowsOf(_)
\* The parsed events of the first k log files, in the order they are read.
RowsOf(k) ==
    IF k = 0 THEN << >> ELSE RowsOf(k - 1) \o readJsonl(ReadLines(files[k]))

\* The parsed events the aggregation loop of the current run has gone through.
Processed ==
    IF pc \in { "loop", "crashed" } THEN RowsOf(fi - 1) \o SubSeq(events, 1, ei - 1)
    ELSE IF pc \in { "read", "done" } THEN RowsOf(fi - 1)
    ELSE << >>

\* An event that carries a usage object and, in it, a cost that is neither
\* missing nor zero.
HasUsageAndCost(event) ==
    /\ event.top = "obj"
    /\ event.message = "obj"
    /\ event.usage = "obj"
    /\ event.cost.t \notin { "absent" }
    /\ ~(event.cost.t = "num" /\ event.cost.n = 0)
    /\ ~(event.cost.t = "str" /\ event.cost.s = "")
    /\ ~(event.cost.t = "bool" /\ event.cost.n = 0)

\* The events the aggregation includes, among those gone through.
Included == SelectSeq(Processed, HasUsageAndCost)

\* What a field is worth in a sum: its value when it is a number, 0 when it
\* is missing or is not a number.
Worth(v) == IF v.t = "num" THEN v.n ELSE 0

\* What usage.cost.total is worth.
CostWorth(event) == IF event.cost.t = "obj" THEN Worth(event.total) ELSE 0

\* The sum of what a field is worth over the included events numbered in I.
RECURSIVE SumWorth(_, _)
SumWorth(I, field) ==
    IF I = {} THEN 0
    ELSE LET i == CHOOSE j \in I : TRUE
         IN  Worth(Included[i][field]) + SumWorth(I \ {i}, field)

RECURSIVE SumCost(_)
SumCost(I) ==
    IF I = {} THEN 0
    ELSE LET i == CHOOSE j \in I : TRUE
         IN  CostWorth(Included[i]) + SumCost(I \ {i})

\* A timestamp that is there: a string that is not empty or a number that is
\* not 0.
Stamped(v) == (v.t = "str" /\ v.s # "") \/ (v.t = "num" /\ v.n # 0)

\* The characters of a timestamp that is there.
StampText(v) == IF v.t = "str" THEN v.s ELSE ToString(v.n)

\* The date of the i-th included event: the first 10 characters of its
\* timestamp, of the event or else of its message; the date resolved for it
\* when it carries neither.
ClaimDate(i) ==
    LET e == Included[i]
    IN  IF Stamped(e.timestamp) THEN SliceTo(StampText(e.timestamp), 10)
        ELSE IF Stamped(e.mtimestamp) THEN SliceTo(StampText(e.mtimestamp), 10)
        ELSE dated[i]

\* The model identifier of the i-th included event, "unknown" when absent.
ClaimModel(i) ==
    LET e == Included[i]
    IN  IF e.model.t = "str" /\ e.model.s # "" THEN e.model.s
        ELSE IF e.modelId.t = "str" /\ e.modelId.s # "" THEN e.modelId.s
        ELSE "unknown"

\* The run has emitted its payload, which is the document.
Emitted == pc = "done" /\ outDoc # << >>

\* C3: after the loop has gone through any sequence of events, totals.calls
\* is the number of included events and each other field of totals is the sum
\* of that field over the included events.
C3_TotalsAreSums ==
    pc \in { "read", "loop", "done", "crashed" } =>
        LET I == 1..Len(Included)
        IN  totals = [calls |-> JNum(Len(Included)),
                      inputTokens |-> JNum(SumWorth(I, "input")),
                      outputTokens |-> JNum(SumWorth(I, "output")),
                      cacheRead |-> JNum(SumWorth(I, "cacheRead")),
                      cacheWrite |-> JNum(SumWorth(I, "cacheWrite")),
                      totalTokens |-> JNum(SumWorth(I, "totalTokens")),
                      cost |-> JNum(SumCost(I))]

\* C4: the emitted payload has exactly one daily entry per distinct date of
\* the included events, and each entry holds the count and the sums of the
\* included events of its date.
C4_DailyPerDate ==
    Emitted =>
        LET daily == outDoc[1].daily
            I == 1..Len(Included)
            On(d) == { i \in I : ClaimDate(i) = d }
        IN  /\ { daily[k].date : k \in 1..Len(daily) } = { ClaimDate(i) : i \in I }
            /\ \A k, l \in 1..Len(daily) : daily[k].date = daily[l].date => k = l
            /\ \A k \in 1..Len(daily) :
                 daily[k] = [date |-> daily[k].date,
                             calls |-> JNum(Cardinality(On(daily[k].date))),
                             inputTokens |-> JNum(SumWorth(On(daily[k].date), "input")),
                             outputTokens |-> JNum(SumWorth(On(daily[k].date), "output")),
                             totalTokens |-> JNum(SumWorth(On(daily[k].date), "totalTokens")),
                             cost |-> JNum(SumCost(On(daily[k].date)))]

\* C5: the emitted payload has exactly one models entry per distinct model
\* identifier of the included events ("unknown" for an absent one); each
\* entry holds the count and the sums of the included events of its model and
\* the classifier's label for the identifier.
C5_ModelsPerIdentifier ==
    Emitted =>
        LET models == outDoc[1].models
            I == 1..Len(Included)
            Of(m) == { i \in I : ClaimModel(i) = m }
        IN  /\ { models[k].model : k \in 1..Len(models) } = { ClaimModel(i) : i \in I }
            /\ \A k, l \in 1..Len(models) : models[k].model = models[l].model => k = l
            /\ \A k \in 1..Len(models) :
                 models[k] = [model |-> models[k].model,
                              provider |-> providerFromModel(models[k].model),
                              calls |-> JNum(Cardinality(Of(models[k].model))),
                              inputTokens |-> JNum(SumWorth(Of(models[k].model), "input")),
                              outputTokens |-> JNum(SumWorth(Of(models[k].model), "output")),
                              totalTokens |-> JNum(SumWorth(Of(models[k].model), "totalTokens")),
                              cost |-> JNum(SumCost(Of(models[k].model)))]

\* No entry of the directory has a name that ends in ".jsonl".
NoLogFile == \A i \in 1..Len(dir) : dir[i].name \notin { "a.jsonl", "b.jsonl" }

\* C1: while the log directory does not exist no step changes the document,
\* and a run started then ends at once, by its early exit.
C1_AbsentDirKeepsDocument ==
    [][~dirExists => /\ outDoc' = outDoc
                     /\ (pc \in Halted => pc' \in { pc, "exited" })]_vars

C1_Witness ==
    /\ pc = "exited"
    /\ ~dirExists
    /\ outDoc # << >>

\* C2, as stated: a run started while the directory exists does not end by
\* the early exit, and no run aborts: every such run writes.
C2_OnlyAbsenceSkipsWrite ==
    /\ [][(pc \in Halted /\ pc' # pc /\ dirExists) => pc' = "read"]_vars
    /\ [](pc # "crashed")

\* C2, amended: a run takes the early exit exactly when it finds no .jsonl
\* file, the directory being absent or holding none; once in the loop it never
\* takes it; the document changes only in the step that completes a run, and
\* that step writes the payload of the run over whatever was there.
C2_ExitIffNoLogFile ==
    [][/\ (pc \in Halted /\ pc' # pc) =>
             /\ (pc' = "exited" <=> (~dirExists \/ NoLogFile))
             /\ (pc' = "read" <=> (dirExists /\ ~NoLogFile))
       /\ (pc \in { "read", "loop" } => pc' # "exited")
       /\ (outDoc' # outDoc => (pc = "read" /\ pc' = "done"))
       /\ ((pc # "done" /\ pc' = "done") =>
             /\ Len(outDoc') = 1
             /\ outDoc'[1].generatedAt = ToISOString(clock)
             /\ outDoc'[1].totals = totals)]_vars

C2_Witness ==
    /\ pc = "exited"
    /\ dirExists
    /\ Len(dir) > 0
    /\ NoLogFile
    /\ outDoc = << >>

\* C7: a field of an included event that is missing or is not a number adds
\* 0 to totals, and no number of the document is NaN.
IsNumber(x) == ~x.nan

C7_MissingCountsZero ==
    /\ [][(pc = "loop" /\ ei' = ei + 1 /\ totals' # totals) =>
            LET event == events[ei]
            IN  /\ totals'.inputTokens = Add(totals.inputTokens, JNum(Worth(event.input)))
                /\ totals'.outputTokens = Add(totals.outputTokens, JNum(Worth(event.output)))
                /\ totals'.cacheRead = Add(totals.cacheRead, JNum(Worth(event.cacheRead)))
                /\ totals'.cacheWrite = Add(totals.cacheWrite, JNum(Worth(event.cacheWrite)))
                /\ totals'.totalTokens = Add(totals.totalTokens, JNum(Worth(event.totalTokens)))
                /\ totals'.cost = Add(totals.cost, JNum(CostWorth(event)))]_vars
    /\ [](outDoc # << >> =>
            LET p == outDoc[1]
                Five(r) == /\ IsNumber(r.calls) /\ IsNumber(r.inputTokens)
                           /\ IsNumber(r.outputTokens) /\ IsNumber(r.totalTokens)
                           /\ IsNumber(r.cost)
            IN  /\ Five(p.totals)
                /\ IsNumber(p.totals.cacheRead)
                /\ IsNumber(p.totals.cacheWrite)
                /\ \A k \in 1..Len(p.daily) : Five(p.daily[k])
                /\ \A k \in 1..Len(p.models) : Five(p.models[k]))

\* Two payloads that differ at most in generatedAt.
SameButGeneratedAt(p, q) ==
    /\ p.source = q.source
    /\ p.totals = q.totals
    /\ p.daily = q.daily
    /\ p.models = q.models

\* C8, as stated: the payload a run writes over the payload of an earlier run
\* (the log files are the same in all runs) differs from it at most in
\* generatedAt.
C8_RunsAgree ==
    (pc = "done" /\ prevDoc # << >>) => SameButGeneratedAt(prevDoc[1], outDoc[1])

\* Every included event carries a timestamp, its own or its message's.
AllStamped ==
    \A i \in 1..Len(Included) :
        Stamped(Included[i].timestamp) \/ Stamped(Included[i].mtimestamp)

\* C8, amended: the two payloads differ at most in generatedAt when every
\* included event of the log set carries a timestamp.
C8_RunsAgreeWhenStamped ==
    (pc = "done" /\ prevDoc # << >> /\ AllStamped) =>
        SameButGeneratedAt(prevDoc[1], outDoc[1])

C8_Witness ==
    /\ pc = "done"
    /\ prevDoc # << >>
    /\ AllStamped
    /\ Len(Included) > 0
    /\ prevDoc[1].generatedAt # outDoc[1].generatedAt

\* The characters of Collation in the order of their code units.
CodeUnits == " -.0123456789:[]abcdefghijklmnopqrstuvwxyz"

CodeUnit(c) == CHOOSE i \in 1..Len(CodeUnits) : SubSeq(CodeUnits, i, i) = c

RECURSIVE StringLeq(_, _)
\* a <= b as strings, code unit by code unit.
StringLeq(a, b) ==
    IF Len(a) = 0 THEN TRUE
    ELSE IF Len(b) = 0 THEN FALSE
    ELSE IF CodeUnit(SubSeq(a, 1, 1)) # CodeUnit(SubSeq(b, 1, 1))
         THEN CodeUnit(SubSeq(a, 1, 1)) < CodeUnit(SubSeq(b, 1, 1))
    ELSE StringLeq(SubSeq(a, 2, Len(a)), SubSeq(b, 2, Len(b)))

\* C9: in the emitted payload daily is non-decreasing by date, models is
\* non-increasing by cost, and models of equal cost are in the order in which
\* they were first met.
C9_PayloadOrdered ==
    Emitted =>
        LET daily == outDoc[1].daily
            models == outDoc[1].models
        IN  /\ \A k, l \in 1..Len(daily) : k < l => StringLeq(daily[k].date, daily[l].date)
            /\ \A k, l \in 1..Len(models) : k < l =>
                 /\ IsNumber(models[k].cost)
                 /\ IsNumber(models[l].cost)
                 /\ models[k].cost.n >= models[l].cost.n
                 /\ (models[k].cost.n = models[l].cost.n =>
                        Find(byModel, "model", models[k].model)
                            < Find(byModel, "model", models[l].model))

\* C10: whatever the log files hold, the run does not abort.
C10_NoContentAborts == pc # "crashed"

\* The requests that have not left loadData.
InFlight == { i \in 1..Len(requests) : requests[i].stage # "settled" }

\* The places of trace where a request settled, and the last two of them.
Settles == { k \in 1..Len(trace) : trace[k].kind = "settle" }
LastSettle == CHOOSE k \in Settles : \A l \in Settles : l <= k
PrevSettle == CHOOSE k \in Settles \ { LastSettle } :
                  \A l \in Settles \ { LastSettle } : l <= k

\* The place of trace where request i was called.
CallAt(i) == CHOOSE k \in 1..Len(trace) : trace[k].kind = "call" /\ trace[k].id = i

\* The two requests that settled last were both under way at one time: each
\* was called before the other settled.
LastTwoOverlap ==
    /\ Cardinality(Settles) >= 2
    /\ CallAt(trace[LastSettle].id) < PrevSettle
    /\ CallAt(trace[PrevSettle].id) < LastSettle

\* C11: when two loadData requests overlap, then once both have resolved the
\* view shows the outcome of the one that resolved last: after a success its
\* payload with no error displayed, after a failure its error message, and
\* in both cases loading is false.
C11_LastResolvedWins ==
    (InFlight = {} /\ LastTwoOverlap) =>
        LET last == trace[LastSettle]
        IN  /\ ~ShowsLoading
            /\ last.ok =>
                   /\ ShowsPayload
                   /\ data[1].generatedAt = last.text
                   /\ ~ShowsError
            /\ ~last.ok =>
                   /\ ShowsError
                   /\ error[1] = last.text

====
